---------------------------- MODULE Spec2Model ----------------------------
(***************************************************************************)
(* A model of the wsa_peakfind driver (examples/peakfind/peakfind.c) and   *)
(* of the sweep device it drives (src/wsa_sweep_device.c).                 *)
(*                                                                         *)
(* One behaviour is one run of main(): the argument loop, the connection   *)
(* to the box, wsa_power_spectrum_alloc, wsa_capture_power_spectrum with   *)
(* its packet-read loop, peakfind, the printing of the peaks and the       *)
(* clean-up.  The device API (wsa_open, wsa_capture_block,                 *)
(* wsa_read_vrt_packet, ...) and malloc are the environment: their results *)
(* are chosen nondeterministically, and every call made on the device is   *)
(* appended to devlog.                                                     *)
(*                                                                         *)
(* C strings are sequences of one-character strings; "NUL" is the          *)
(* terminating byte and "UNINIT" a byte that was never written.            *)
(*                                                                         *)
(* Frequencies are counted in units of 100 kHz, so that the default plan   *)
(* (2000 MHz .. 3000 MHz, rbw 100 kHz) is 20000 .. 30000 with rbw 1 and    *)
(* fits the integers of the model checker; the 64-bit and 32-bit unsigned  *)
(* types keep their wrap-around, on Width64 and Width32 bits.              *)
(***************************************************************************)
EXTENDS Integers, Sequences, FiniteSets, TLC

(***************************************************************************)
(* Bounds of the model.                                                    *)
(***************************************************************************)
\* the longest command line examined: argc - 1
MaxArgs == 2
\* the packet reads of one capture that the history variables count
MaxReads == 2
\* bits of the model's uint64_t and uint32_t
Width64 == 20
Width32 == 16

Mod64 == 2 ^ Width64
Mod32 == 2 ^ Width32

(***************************************************************************)
(* Program constants.                                                      *)
(***************************************************************************)
\* #define MAXPEAKS 256
MAXPEAKS == 256
\* char mode[16]
ModeSize == 16
\* fstart = 2000ULL * MHZ, in units of 100 kHz
DefaultFstart == 20000
\* fstop = 3000ULL * MHZ, in units of 100 kHz
DefaultFstop == 30000
\* rbw = 100 * KHZ, in units of 100 kHz
DefaultRbw == 1
\* peaks = 1
DefaultPeaks == 1
\* wsa_set_samples_per_packet(dev, 1024)
SamplesPerPacket == 1024
\* wsa_set_packets_per_block(dev, 1)
PacketsPerBlock == 1
\* the timeout handed to each wsa_read_vrt_packet, in ms
ReadTimeoutMs == 5000
\* strcpy(mode, "SH")
DefaultMode == <<"S", "H">>
\* WSA_RFE_SHN_STRING, the mode the capture sets
WSA_RFE_SHN_STRING == <<"S", "H", "N">>

NULL == <<"NULLPTR">>

Min(a, b) == IF a < b THEN a ELSE b

(***************************************************************************)
(* libc                                                                    *)
(***************************************************************************)
Lower == <<"a","b","c","d","e","f","g","h","i","j","k","l","m",
           "n","o","p","q","r","s","t","u","v","w","x","y","z">>
Upper == <<"A","B","C","D","E","F","G","H","I","J","K","L","M",
           "N","O","P","Q","R","S","T","U","V","W","X","Y","Z">>
Digits == <<"0","1","2","3","4","5","6","7","8","9">>

toupper(c) ==
    IF \E k \in 1..26 : Lower[k] = c
    THEN Upper[CHOOSE k \in 1..26 : Lower[k] = c]
    ELSE c

IsDigit(c) == \E k \in 1..10 : Digits[k] = c
DigitVal(c) == (CHOOSE k \in 1..10 : Digits[k] = c) - 1

\* first position of c in s, 0 when there is none: index(s, c)
IndexOf(s, c) ==
    IF \E p \in 1..Len(s) : s[p] = c
    THEN CHOOSE p \in 1..Len(s) : s[p] = c /\ \A q \in 1..(p-1) : s[q] # c
    ELSE 0

\* the C string that starts a char buffer: the bytes before the first NUL
CStr(b) ==
    IF IndexOf(b, "NUL") = 0 THEN b ELSE SubSeq(b, 1, IndexOf(b, "NUL") - 1)

\* strtoull(s, NULL, 10): the leading decimal digits; on overflow the
\* largest value and errno = ERANGE
RECURSIVE StrToAcc(_, _)
StrToAcc(s, acc) ==
    IF s = <<>> \/ ~IsDigit(Head(s)) THEN acc
    ELSE IF acc.err THEN acc
    ELSE LET v == acc.val * 10 + DigitVal(Head(s))
         IN  IF v >= Mod64
             THEN [val |-> Mod64 - 1, err |-> TRUE]
             ELSE StrToAcc(Tail(s), [val |-> v, err |-> FALSE])

strtoull(s) == StrToAcc(s, [val |-> 0, err |-> FALSE])

(***************************************************************************)
(* The command lines examined.                                             *)
(***************************************************************************)
ArgHelp    == <<"-","-","h","e","l","p">>
ArgModeShn == <<"-","-","m","o","d","e","=","s","h","n">>
ArgModeZ   == <<"-","-","m","o","d","e","=","z">>
ArgModeNone == <<"-","-","m","o","d","e">>
ArgStart   == <<"-","-","s","t","a","r","t","=","2","9","0","0","0">>
ArgStop    == <<"-","-","s","t","o","p","=","1","0","0">>
ArgRbw0    == <<"-","-","r","b","w","=","0">>
ArgRbwWide == <<"-","-","r","b","w","=","2","0","0","0","0">>
ArgPeaks0  == <<"-","-","p","e","a","k","s","=","0">>
ArgPeaks2  == <<"-","-","p","e","a","k","s","=","2">>
ArgBogus   == <<"-","-","f","a","s","t">>
ArgHost    == <<"1","0",".","1">>

ArgPool == {ArgHelp, ArgModeShn, ArgModeZ, ArgModeNone, ArgStart, ArgStop,
            ArgRbw0, ArgRbwWide, ArgPeaks0, ArgPeaks2, ArgBogus, ArgHost}

CommandLines == UNION {[1..n -> ArgPool] : n \in 0..MaxArgs}

VARIABLES
    argv,        \* argv[1..argc-1], each a char buffer (parse_option mangles it)
    i,           \* main's int i
    optname,     \* main's char *optname, as the string it points to
    optvalue,    \* main's char *optvalue, as the string it points to
    fstart, fstop, rbw, peaks,
    mode,        \* main's char mode[16], indexed 0..15
    host,
    modeStr,     \* the string read from mode[] when the options are printed
    pc,          \* main's position
    exitCode,
    errmsg,      \* the last error written to stderr
    devlog,      \* the calls made on the device, in order
    sweepFrom,   \* Len(devlog) when wsa_capture_power_spectrum was entered
    cfgState,    \* pscfg: "uninit", "valid" or "freed"
    cfg,         \* *pscfg
    buf,         \* the contents of cfg->buf
    psbuf,       \* main's float *psbuf
    result,      \* main's int16_t result
    sweepRet,    \* <<r>> once wsa_capture_power_spectrum has returned r
    wire,        \* <<r>>: what the last wsa_read_vrt_packet handed back
    header,      \* the capture's struct wsa_vrt_packet_header
    nreads,      \* successful non-IF reads of this capture, up to MaxReads
    seenUnknown, \* one of them had an unrecognized stream id
    pfargs,      \* the arguments main handed to peakfind
    found,       \* <<r>> once peakfind has returned r
    printed      \* the lines printed under "Peaks found:"

vars == <<argv, i, optname, optvalue, fstart, fstop, rbw, peaks, mode, host,
          modeStr, pc, exitCode, errmsg, devlog, sweepFrom, cfgState, cfg,
          buf, psbuf, result, sweepRet, wire, header, nreads, seenUnknown,
          pfargs, found, printed>>

argc == Len(argv) + 1

NoHeader == [stream_id |-> "none", packet_type |-> "none"]
NoCfg == [fstart |-> 0, fstop |-> 0, rbw |-> 0, buflen |-> 0]
NoBuf == [len |-> 0, base |-> 0, spikes |-> <<>>]
NoArgs == [buflen |-> 0, hzperbin |-> 0, peaks |-> 0]

\* char mode[16]; strcpy(mode, "SH")
InitMode ==
    [j \in 0..(ModeSize - 1) |->
        IF j < Len(DefaultMode) THEN DefaultMode[j + 1]
        ELSE IF j = Len(DefaultMode) THEN "NUL"
        ELSE "UNINIT"]

Init ==
    /\ argv \in CommandLines
    /\ i = 1
    /\ optname = NULL
    /\ optvalue = NULL
    /\ fstart = DefaultFstart
    /\ fstop = DefaultFstop
    /\ rbw = DefaultRbw
    /\ peaks = DefaultPeaks
    /\ mode = InitMode
    /\ host = NULL
    /\ modeStr = NULL
    /\ pc = "parse"
    /\ exitCode = 0
    /\ errmsg = "none"
    /\ devlog = <<>>
    /\ sweepFrom = 0
    /\ cfgState = "uninit"
    /\ cfg = NoCfg
    /\ buf = NoBuf
    /\ psbuf = "uninit"
    /\ result = 0
    /\ sweepRet = <<>>
    /\ wire = <<>>
    /\ header = NoHeader
    /\ nreads = 0
    /\ seenUnknown = FALSE
    /\ pfargs = NoArgs
    /\ found = <<>>
    /\ printed = <<>>

(***************************************************************************)
(* parse_option: 0 and no name when the argument does not start with "--", *)
(* 2 with the name and the value when it holds an '=' (which is            *)
(* overwritten by a NUL), 1 with the name alone when it does not (the      *)
(* value pointer is then left as it was).                                  *)
(***************************************************************************)
parse_option(option, name, value) ==
    LET s == CStr(option)
    IN  IF Len(s) < 2 \/ SubSeq(s, 1, 2) # <<"-", "-">>
        THEN [n |-> 0, name |-> NULL, value |-> NULL, option |-> option]
        ELSE LET rest == SubSeq(s, 3, Len(s))
                 p == IndexOf(rest, "=")
             IN  IF p > 0
                 THEN [n |-> 2,
                       name |-> SubSeq(rest, 1, p - 1),
                       value |-> SubSeq(rest, p + 1, Len(rest)),
                       option |-> [option EXCEPT ![2 + p] = "NUL"]]
                 ELSE [n |-> 1, name |-> rest, value |-> value,
                       option |-> option]

\* main's copy of the --mode value: for(i=0;;i++) {...} mode[15] = 0.
\* The loop counter is main's i.
ModeCopy(m, value) ==
    LET k == Min(Len(value), ModeSize)
    IN  [i |-> k,
         mode |-> [j \in 0..(ModeSize - 1) |->
                     IF j = ModeSize - 1 THEN "NUL"
                     ELSE IF j < k THEN toupper(value[j + 1])
                     ELSE m[j]]]

Exit(code, msg) ==
    /\ pc' = "exit"
    /\ exitCode' = code
    /\ errmsg' = msg

OptHelp  == <<"h","e","l","p">>
OptMode  == <<"m","o","d","e">>
OptStart == <<"s","t","a","r","t">>
OptStop  == <<"s","t","o","p">>
OptRbw   == <<"r","b","w">>
OptPeaks == <<"p","e","a","k","s">>

Driver == <<devlog, sweepFrom, cfgState, cfg, buf, psbuf, result, sweepRet,
            wire, header, nreads, seenUnknown, pfargs, found, printed>>

(***************************************************************************)
(* One pass of main's argument loop, for(i=1; i<argc; i++): the loop test, *)
(* parse_option on argv[i], the option's branch and the loop's i++.        *)
(***************************************************************************)
ParseArg ==
    /\ pc = "parse"
    /\ UNCHANGED <<host, modeStr>>
    /\ UNCHANGED Driver
    /\ IF i >= argc
       THEN /\ pc' = "host"
            /\ UNCHANGED <<argv, i, optname, optvalue, fstart, fstop, rbw,
                           peaks, mode, exitCode, errmsg>>
       ELSE LET r == parse_option(argv[i], optname, optvalue)
                num == strtoull(r.value)
            IN  /\ argv' = [argv EXCEPT ![i] = r.option]
                /\ optname' = r.name
                /\ optvalue' = r.value
                /\ CASE r.n = 0 ->
                          /\ pc' = "host"
                          /\ UNCHANGED <<i, fstart, fstop, rbw, peaks, mode,
                                         exitCode, errmsg>>
                     [] r.n # 0 /\ r.name = OptHelp ->
                          /\ Exit(0, "none")
                          /\ UNCHANGED <<i, fstart, fstop, rbw, peaks, mode>>
                     [] r.n # 0 /\ r.name = OptMode ->
                          IF r.n # 2
                          THEN /\ Exit(-1, "value for --mode missing")
                               /\ UNCHANGED <<i, fstart, fstop, rbw, peaks,
                                              mode>>
                          ELSE /\ mode' = ModeCopy(mode, r.value).mode
                               /\ i' = ModeCopy(mode, r.value).i + 1
                               /\ UNCHANGED <<pc, fstart, fstop, rbw, peaks,
                                              exitCode, errmsg>>
                     [] r.n # 0 /\ r.name = OptStart ->
                          IF r.n # 2
                          THEN /\ Exit(-1, "value for --start missing")
                               /\ UNCHANGED <<i, fstart, fstop, rbw, peaks,
                                              mode>>
                          ELSE IF num.err
                          THEN /\ Exit(-1, "could not parse fstart value")
                               /\ fstart' = num.val
                               /\ UNCHANGED <<i, fstop, rbw, peaks, mode>>
                          ELSE /\ fstart' = num.val
                               /\ i' = i + 1
                               /\ UNCHANGED <<pc, fstop, rbw, peaks, mode,
                                              exitCode, errmsg>>
                     [] r.n # 0 /\ r.name = OptStop ->
                          IF r.n # 2
                          THEN /\ Exit(-1, "value for --stop missing")
                               /\ UNCHANGED <<i, fstart, fstop, rbw, peaks,
                                              mode>>
                          ELSE IF num.err
                          THEN /\ Exit(-1, "could not parse fstop value")
                               /\ fstop' = num.val
                               /\ UNCHANGED <<i, fstart, rbw, peaks, mode>>
                          ELSE /\ fstop' = num.val
                               /\ i' = i + 1
                               /\ UNCHANGED <<pc, fstart, rbw, peaks, mode,
                                              exitCode, errmsg>>
                     [] r.n # 0 /\ r.name = OptRbw ->
                          IF r.n # 2
                          THEN /\ Exit(-1, "value for --rbw missing")
                               /\ UNCHANGED <<i, fstart, fstop, rbw, peaks,
                                              mode>>
                          ELSE IF num.err
                          THEN /\ Exit(-1, "could not parse rbw value")
                               /\ rbw' = num.val
                               /\ UNCHANGED <<i, fstart, fstop, peaks, mode>>
                          ELSE /\ rbw' = num.val
                               /\ i' = i + 1
                               /\ UNCHANGED <<pc, fstart, fstop, peaks, mode,
                                              exitCode, errmsg>>
                     [] r.n # 0 /\ r.name = OptPeaks ->
                          IF r.n # 2
                          THEN /\ Exit(-1, "value for --peaks missing")
                               /\ UNCHANGED <<i, fstart, fstop, rbw, peaks,
                                              mode>>
                          ELSE IF num.err
                          THEN /\ Exit(-1, "could not parse peaks value")
                               /\ peaks' = num.val % Mod32
                               /\ UNCHANGED <<i, fstart, fstop, rbw, mode>>
                          ELSE /\ peaks' = num.val % Mod32
                               /\ i' = i + 1
                               /\ UNCHANGED <<pc, fstart, fstop, rbw, mode,
                                              exitCode, errmsg>>
                     [] OTHER ->
                          /\ Exit(-1, "unrecognized option")
                          /\ UNCHANGED <<i, fstart, fstop, rbw, peaks, mode>>

\* what printf("%s", mode) reads: the bytes up to the first NUL; a byte that
\* was never written is a NUL or the start of a run of garbage, "?"
ModeReadings(m) ==
    LET stop == CHOOSE j \in 0..(ModeSize - 1) :
                    /\ m[j] \in {"NUL", "UNINIT"}
                    /\ \A k \in 0..(j - 1) : m[k] \notin {"NUL", "UNINIT"}
        det == [k \in 1..stop |-> m[k - 1]]
    IN  IF m[stop] = "NUL" THEN {det} ELSE {det, Append(det, "?")}

(***************************************************************************)
(* After the loop: the argument at i is the host, and the options are      *)
(* printed.                                                                *)
(***************************************************************************)
FindHost ==
    /\ pc = "host"
    /\ UNCHANGED <<argv, i, optname, optvalue, fstart, fstop, rbw, peaks, mode>>
    /\ UNCHANGED Driver
    /\ IF i >= argc
       THEN /\ Exit(-1, "<IP> not found")
            /\ UNCHANGED <<host, modeStr>>
       ELSE /\ host' = CStr(argv[i])
            /\ \E s \in ModeReadings(mode) : modeStr' = s
            /\ pc' = "connect"
            /\ UNCHANGED <<exitCode, errmsg>>

Args == <<argv, i, optname, optvalue, fstart, fstop, rbw, peaks, mode, host,
          modeStr>>

Log(ops) == devlog' = devlog \o ops

(***************************************************************************)
(* wsa_open, and the initialisation of the box.                            *)
(***************************************************************************)
Connect ==
    /\ pc = "connect"
    /\ UNCHANGED Args
    /\ UNCHANGED <<sweepFrom, cfgState, cfg, buf, psbuf, sweepRet, wire, header,
                   nreads, seenUnknown, pfargs, found, printed>>
    /\ \E r \in {-1, 0} :
          /\ result' = r
          /\ IF r < 0
             THEN /\ Log(<< <<"wsa_open", host>> >>)
                  /\ Exit(-1, "wsa_open() failed")
             ELSE /\ Log(<< <<"wsa_open", host>>,
                            <<"wsa_system_request_acq_access", 0>>,
                            <<"wsa_system_abort_capture", 0>>,
                            <<"wsa_flush_data", 0>> >>)
                  /\ pc' = "new"
                  /\ UNCHANGED <<exitCode, errmsg>>

(***************************************************************************)
(* wsa_sweep_device_new: malloc may fail.                                  *)
(***************************************************************************)
NewSweepDevice ==
    /\ pc = "new"
    /\ UNCHANGED Args
    /\ UNCHANGED <<sweepFrom, cfgState, cfg, buf, psbuf, result, sweepRet, wire,
                   header, nreads, seenUnknown, pfargs, found, printed>>
    /\ \E ok \in BOOLEAN :
          IF ok
          THEN /\ pc' = "alloc"
               /\ UNCHANGED <<devlog, exitCode, errmsg>>
          ELSE /\ Log(<< <<"wsa_close", 0>> >>)
               /\ Exit(-1, "unable to create sweep device")

Crash(msg) ==
    /\ pc' = "crashed"
    /\ errmsg' = msg
    /\ UNCHANGED exitCode

\* uint64_t subtraction, and the division the plan is sized with
Sub64(a, b) == (a - b) % Mod64
BinCount(start, stop, width) == Sub64(stop, start) \div width

(***************************************************************************)
(* main's call of wsa_power_spectrum_alloc.  The mode is not copied into   *)
(* the config; rbw arrives as a uint32_t.  Either malloc may fail, and     *)
(* when the second does *pscfg is left pointing to freed memory.  A        *)
(* division by rbw = 0 traps or yields 0.                                  *)
(***************************************************************************)
Alloc ==
    /\ pc = "alloc"
    /\ UNCHANGED Args
    /\ UNCHANGED <<devlog, sweepFrom, buf, psbuf, sweepRet, wire, header, nreads,
                   seenUnknown, pfargs, found, printed>>
    /\ \E outcome \in {"nomem_cfg", "nomem_buf", "ok"}, trap \in BOOLEAN :
          LET rbw32 == rbw % Mod32
              buflen == IF rbw32 = 0 THEN 0
                        ELSE BinCount(fstart, fstop, rbw32) % Mod32
              filled == [fstart |-> fstart, fstop |-> fstop, rbw |-> rbw32,
                         buflen |-> buflen]
          IN  IF outcome = "nomem_cfg"
              THEN /\ result' = -1
                   /\ pc' = "capture"
                   /\ UNCHANGED <<cfgState, cfg, exitCode, errmsg>>
              ELSE IF rbw32 = 0 /\ trap
              THEN /\ Crash("division by zero")
                   /\ cfg' = [NoCfg EXCEPT !.fstart = fstart, !.fstop = fstop]
                   /\ UNCHANGED <<cfgState, result>>
              ELSE IF outcome = "nomem_buf"
              THEN /\ result' = -1
                   /\ cfgState' = "freed"
                   /\ cfg' = filled
                   /\ pc' = "capture"
                   /\ UNCHANGED <<exitCode, errmsg>>
              ELSE /\ result' = 0
                   /\ cfgState' = "valid"
                   /\ cfg' = filled
                   /\ pc' = "capture"
                   /\ UNCHANGED <<exitCode, errmsg>>

\* CaptureOps with the flush moved between the geometry and the trigger
CaptureOpsFlushAfterSetup ==
    << <<"wsa_set_rfe_input_mode", WSA_RFE_SHN_STRING>>,
       <<"wsa_set_samples_per_packet", SamplesPerPacket>>,
       <<"wsa_set_packets_per_block", PacketsPerBlock>>,
       <<"wsa_flush_data", 0>>,
       <<"wsa_capture_block", 0>> >>

\* the calls wsa_capture_power_spectrum makes on the device up to and
\* including the trigger
CaptureOps ==
    << <<"wsa_flush_data", 0>>,
       <<"wsa_set_rfe_input_mode", WSA_RFE_SHN_STRING>>,
       <<"wsa_set_samples_per_packet", SamplesPerPacket>>,
       <<"wsa_set_packets_per_block", PacketsPerBlock>>,
       <<"wsa_capture_block", 0>> >>

(***************************************************************************)
(* main's call of wsa_capture_power_spectrum, up to the read loop.  main   *)
(* does not look at what wsa_power_spectrum_alloc returned, and psbuf was  *)
(* never initialised: the test of what buf points to finds it null or not. *)
(***************************************************************************)
CaptureBegin ==
    /\ pc = "capture"
    /\ UNCHANGED Args
    /\ UNCHANGED <<cfgState, cfg, buf, result, header, nreads,
                   seenUnknown, pfargs, found, printed>>
    /\ \E nonnull \in BOOLEAN, deref \in BOOLEAN, r \in {-1, 0} :
          IF nonnull /\ cfgState # "valid" /\ ~deref
          THEN /\ Crash("invalid pscfg")
               /\ UNCHANGED <<psbuf, devlog, sweepFrom, sweepRet, wire>>
          ELSE /\ psbuf' = IF ~nonnull THEN "null"
                           ELSE IF cfgState = "valid" THEN "cfg->buf"
                           ELSE "garbage"
               /\ sweepFrom' = Len(devlog)
               /\ Log(CaptureOps)
               /\ IF r < 0
                  THEN /\ sweepRet' = <<-1>>
                       /\ errmsg' = "wsa_capture_block()"
                       /\ pc' = "peakfind"
                       /\ UNCHANGED <<wire, exitCode>>
                  ELSE /\ pc' = "read"
                       /\ UNCHANGED <<sweepRet, wire, exitCode, errmsg>>

StreamIds == {"RECEIVER_STREAM_ID", "DIGITIZER_STREAM_ID",
              "EXTENSION_STREAM_ID", "I16Q16_DATA_STREAM_ID",
              "I16_DATA_STREAM_ID", "I32_DATA_STREAM_ID", "other"}
PacketTypes == {"IF_PACKET_TYPE", "CONTEXT_PACKET_TYPE",
                "EXTENSION_PACKET_TYPE", "other"}
Headers == [stream_id : StreamIds, packet_type : PacketTypes]

\* what wsa_read_vrt_packet may hand back: an error, or a packet
ReadOutcomes ==
    {[result |-> -1, header |-> NoHeader]}
        \cup {[result |-> 0, header |-> h] : h \in Headers}

\* the two labels wsa_dump_vrt_packet_header prints
wsa_dump_vrt_packet_header(h) ==
    << CASE h.stream_id = "RECEIVER_STREAM_ID" -> "CTX_RECEIVER"
         [] h.stream_id = "DIGITIZER_STREAM_ID" -> "CTX_DIGITIZER"
         [] h.stream_id = "EXTENSION_STREAM_ID" -> "CTX_EXTENSION"
         [] h.stream_id = "I16Q16_DATA_STREAM_ID" -> "DATA_I16Q16"
         [] h.stream_id = "I16_DATA_STREAM_ID" -> "DATA_I16"
         [] h.stream_id = "I32_DATA_STREAM_ID" -> "DATA_I32"
         [] OTHER -> "UNKNOWN",
       CASE h.packet_type = "IF_PACKET_TYPE" -> "type=IF"
         [] h.packet_type = "CONTEXT_PACKET_TYPE" -> "type=CONTEXT"
         [] h.packet_type = "EXTENSION_PACKET_TYPE" -> "type=EXTENSION"
         [] OTHER -> "type=UNKNOWN" >>

\* ReadFailed with a packet of an unrecognized stream id taken for an error
ReadFailedOnUnknownStream(r) ==
    r.result < 0 \/ wsa_dump_vrt_packet_header(r.header)[1] = "UNKNOWN"

\* if (result < 0) ... return -1
ReadFailed(r) == r.result < 0

\* if (header.packet_type == IF_PACKET_TYPE) break
IsDataPacket(h) == h.packet_type = "IF_PACKET_TYPE"

(***************************************************************************)
(* One pass of the read loop, while(1): a read with its 5000 ms timeout,   *)
(* the return on an error, the dump of the header, the break on an IF      *)
(* packet.  Nothing else ends the loop.                                    *)
(***************************************************************************)
ReadPacket ==
    /\ pc = "read"
    /\ UNCHANGED Args
    /\ UNCHANGED <<sweepFrom, cfgState, cfg, buf, psbuf, result, pfargs,
                   found, printed, exitCode>>
    /\ devlog' = IF nreads < MaxReads
                 THEN Append(devlog, <<"wsa_read_vrt_packet", ReadTimeoutMs>>)
                 ELSE devlog
    /\ \E r \in ReadOutcomes :
          /\ wire' = <<r>>
          /\ IF ReadFailed(r)
             THEN /\ sweepRet' = <<-1>>
                  /\ errmsg' = "wsa_read_vrt_packet()"
                  /\ pc' = "peakfind"
                  /\ header' = NoHeader
                  /\ nreads' = 0
                  /\ seenUnknown' = FALSE
             ELSE /\ header' = r.header
                  /\ UNCHANGED <<sweepRet, errmsg>>
                  /\ IF IsDataPacket(r.header)
                     THEN /\ pc' = "read_done"
                          /\ UNCHANGED <<nreads, seenUnknown>>
                     ELSE /\ pc' = "read"
                          /\ nreads' = Min(nreads + 1, MaxReads)
                          /\ seenUnknown' =
                               (seenUnknown
                                  \/ wsa_dump_vrt_packet_header(r.header)[1]
                                        = "UNKNOWN")

(***************************************************************************)
(* After the loop: no FFT, no reference level; return 0.                   *)
(***************************************************************************)
CaptureEnd ==
    /\ pc = "read_done"
    /\ UNCHANGED Args
    /\ UNCHANGED <<devlog, sweepFrom, cfgState, cfg, buf, psbuf, result,
                   pfargs, found, printed, exitCode, errmsg>>
    /\ sweepRet' = <<0>>
    /\ wire' = <<>>
    /\ header' = NoHeader
    /\ nreads' = 0
    /\ seenUnknown' = FALSE
    /\ pc' = "peakfind"

(***************************************************************************)
(* The spectrum buffer.  Nothing ever writes cfg->buf, so its contents are *)
(* whatever malloc handed out: here a floor of -40 dBm with up to two      *)
(* other values, at bins 1 and 4321.  A buffer is kept as its length, its  *)
(* floor and the bins that differ from it.                                 *)
(***************************************************************************)
BufBins(len) == {k \in {1, 4321} : k < len}
BufContents(len) ==
    {[len |-> len, base |-> -40, spikes |-> f] :
        f \in UNION {[P -> {-20, -10}] : P \in SUBSET BufBins(len)}}
BufAt(b, k) == IF k \in DOMAIN b.spikes THEN b.spikes[k] ELSE b.base

\* what an entry of pfreq[] and pamp[] that was never written reads as
GarbageLines == [amp : {-40, -20}, freq : {0, 4321}]

\* peakfind(buf, buflen, hzperbin, peaks, pfreq, pamp): the loop over the
\* bins is empty; nothing is written to pfreq or pamp, and 0 is returned
peakfind(b, buflen, hzperbin, npeaks) == [ret |-> 0, written |-> <<>>]

\* the third argument of main's call of peakfind
HzPerBinArg(start, stop, width) == BinCount(start, stop, width) % Mod32

(***************************************************************************)
(* main's call of peakfind, whatever wsa_capture_power_spectrum returned.  *)
(* Reading through a pscfg that is not valid crashes or reads garbage;     *)
(* the division by rbw = 0 traps or yields 0.                              *)
(***************************************************************************)
PeakFind ==
    /\ pc = "peakfind"
    /\ UNCHANGED Args
    /\ UNCHANGED <<devlog, sweepFrom, cfgState, cfg, psbuf, result, sweepRet,
                   wire,
                   header, nreads, seenUnknown, printed>>
    /\ \E survive \in BOOLEAN, junk \in {0, 1} :
          IF (cfgState # "valid" \/ rbw = 0) /\ ~survive
          THEN /\ Crash(IF rbw = 0 THEN "division by zero"
                        ELSE "invalid pscfg")
               /\ UNCHANGED <<buf, pfargs, found>>
          ELSE LET len == IF cfgState = "valid" THEN cfg.buflen ELSE junk
                   hz == IF rbw = 0 THEN 0
                         ELSE HzPerBinArg(fstart, fstop, rbw)
               IN  /\ \E b \in BufContents(len) : buf' = b
                   /\ pfargs' = [buflen |-> len, hzperbin |-> hz,
                                 peaks |-> peaks]
                   /\ found' = <<peakfind(buf', len, hz, peaks)>>
                   /\ pc' = "print"
                   /\ UNCHANGED <<exitCode, errmsg>>

\* one printed line: pamp[k], pfreq[k] + fstart
PrintedLine(e) == [amp |-> e.amp, freq |-> (e.freq + fstart) % Mod64]

(***************************************************************************)
(* The report: for (i=0; i<peaks; i++) one line per entry, written by      *)
(* peakfind or not.                                                        *)
(***************************************************************************)
PrintPeaks ==
    /\ pc = "print"
    /\ UNCHANGED <<argv, optname, optvalue, fstart, fstop, rbw, peaks, mode,
                   host, modeStr>>
    /\ UNCHANGED <<devlog, sweepFrom, cfgState, cfg, buf, psbuf, result,
                   sweepRet, wire, header, nreads, seenUnknown, pfargs,
                   found, exitCode, errmsg>>
    /\ \E junk \in [1..peaks -> GarbageLines] :
          printed' = [k \in 1..peaks |->
                        PrintedLine(IF k <= Len(found[1].written)
                                         /\ k <= MAXPEAKS
                                    THEN found[1].written[k]
                                    ELSE junk[k])]
    /\ i' = peaks
    /\ pc' = "cleanup"

(***************************************************************************)
(* wsa_power_spectrum_free, wsa_sweep_device_free, wsa_close, return 0.    *)
(***************************************************************************)
Cleanup ==
    /\ pc = "cleanup"
    /\ UNCHANGED Args
    /\ UNCHANGED <<sweepFrom, cfg, buf, psbuf, result, sweepRet, wire, header,
                   nreads, seenUnknown, pfargs, found, printed>>
    /\ \E survive \in BOOLEAN :
          IF cfgState # "valid" /\ ~survive
          THEN /\ Crash("invalid free")
               /\ UNCHANGED <<cfgState, devlog>>
          ELSE /\ cfgState' = "freed"
               /\ Log(<< <<"wsa_close", 0>> >>)
               /\ Exit(0, errmsg)

Next ==
    \/ ParseArg
    \/ FindHost
    \/ Connect
    \/ NewSweepDevice
    \/ Alloc
    \/ CaptureBegin
    \/ ReadPacket
    \/ CaptureEnd
    \/ PeakFind
    \/ PrintPeaks
    \/ Cleanup

Spec == Init /\ [][Next]_vars

\* main is one sequential thread: while a step is possible, one is taken
LiveSpec == Spec /\ WF_vars(Next)

Terminated == pc \in {"exit", "crashed"}

TypeOK ==
    /\ pc \in {"parse", "host", "connect", "new", "alloc", "capture", "read",
               "read_done", "peakfind", "print", "cleanup", "exit", "crashed"}
    /\ i \in 0..(ModeSize + 1) \cup {peaks}
    /\ cfgState \in {"uninit", "valid", "freed"}
    /\ nreads \in 0..MaxReads

(***************************************************************************)
(*                              The claims                                 *)
(***************************************************************************)

\* the calls wsa_capture_power_spectrum made on the device
SweepEntered == sweepFrom > 0
SweepOps ==
    SelectSeq(SubSeq(devlog, sweepFrom + 1, Len(devlog)),
              LAMBDA e : e[1] # "wsa_close")
Count(ops, name) == Cardinality({k \in 1..Len(ops) : ops[k][1] = name})
Pos(ops, name) == CHOOSE k \in 1..Len(ops) :
                     /\ ops[k][1] = name
                     /\ \A j \in 1..(k - 1) : ops[j][1] # name

\* Hz in the model's unit of frequency
UnitHz == 100000

ValidPlan == fstop > fstart /\ rbw > 0 /\ fstop - fstart >= rbw
CeilDiv(a, b) == (a + b - 1) \div b
BinsPerCapture == SamplesPerPacket \div 2

\* the frequencies the sweep tuned the box to, in the order of the calls
Tunings == SelectSeq(SweepOps, LAMBDA e : e[1] = "wsa_set_freq")

\* C1: for every valid plan, one sweep call triggers a hardware capture
\* exactly ceil(bin_count / 512) times, at strictly ascending tuning
\* frequencies.
C1_CaptureCount ==
    (sweepRet = <<0>> /\ cfgState = "valid" /\ ValidPlan) =>
        /\ Count(SweepOps, "wsa_capture_block")
              = CeilDiv(cfg.buflen, BinsPerCapture)
        /\ Len(Tunings) = Count(SweepOps, "wsa_capture_block")
        /\ \A j, k \in 1..Len(Tunings) :
              j < k => Tunings[j][2] < Tunings[k][2]

\* C2: when the capture trigger or a packet read fails, the sweep returns
\* an error, the caller's pointer is not set to cfg->buf, and the driver
\* runs no peak search and prints no peaks.
C2_NothingSurfacedOnFailure ==
    sweepRet = <<-1>> =>
        /\ psbuf # "cfg->buf"
        /\ found = <<>>
        /\ printed = <<>>
        /\ pc \notin {"print", "cleanup"}

\* C3: in the read loop every successfully read packet that is not an IF
\* packet (a context or extension packet, or one whose stream id is not
\* recognized) is discarded and the capture goes on; the first IF packet
\* ends the loop with its header in hand; the capture is only ever given up
\* on a failed trigger or a failed read.
C3_NonIFPacketsDiscarded ==
    /\ \A k \in 1..Len(wire) :
          /\ (wire[k].result >= 0
                /\ wire[k].header.packet_type # "IF_PACKET_TYPE") =>
                  (pc = "read" /\ sweepRet = <<>> /\ nreads >= 1)
          /\ (wire[k].result >= 0
                /\ wire[k].header.packet_type = "IF_PACKET_TYPE") =>
                  (pc = "read_done" /\ sweepRet = <<>>
                     /\ header = wire[k].header)
    /\ sweepRet = <<-1>> => \A k \in 1..Len(wire) : wire[k].result < 0
    /\ sweepRet = <<0>> => wire = <<>>

\* two packets that are not IF packets, one of them of an unrecognized
\* stream, were discarded and an IF packet has ended the loop
C3_Witness ==
    /\ pc = "read_done"
    /\ nreads = MaxReads
    /\ seenUnknown
    /\ header.packet_type = "IF_PACKET_TYPE"

\* C4: a capture always terminates, also when packets that are not IF
\* packets keep arriving and no IF packet ever comes.
C4_CaptureTerminates == (pc = "read") ~> (pc # "read")

\* C5: a plan with fstop <= fstart, rbw = 0 or no bin is rejected with an
\* error by wsa_power_spectrum_alloc, and no sweep device operation is
\* performed for it.
C5_InvalidPlanRejected ==
    (~ValidPlan /\ pc \in {"capture", "read", "read_done", "peakfind",
                            "print", "cleanup"}) =>
        /\ result < 0
        /\ ~SweepEntered

\* the peaks of a buffer as the peak finder is specified
IsCandidate(b, k) ==
    /\ b.len > 1
    /\ k > 0 => BufAt(b, k) > BufAt(b, k - 1)
    /\ k < b.len - 1 => BufAt(b, k) > BufAt(b, k + 1)
Candidates(b) ==
    {k \in {j \in 0..(b.len - 1) :
               \/ j \in {0, b.len - 1}
               \/ \E d \in {-1, 0, 1} : j + d \in DOMAIN b.spikes} :
        IsCandidate(b, k)}
RECURSIVE TopPeaks(_, _, _)
TopPeaks(b, cands, n) ==
    IF n = 0 \/ cands = {} THEN <<>>
    ELSE LET best == CHOOSE k \in cands : \A j \in cands :
                        \/ BufAt(b, k) > BufAt(b, j)
                        \/ BufAt(b, k) = BufAt(b, j) /\ k <= j
         IN  <<[amp |-> BufAt(b, best),
                freq |-> (fstart + best * rbw) % Mod64]>>
                \o TopPeaks(b, cands \ {best}, n - 1)

\* C6: the peak finder returns exactly the first min(max_peaks, number of
\* candidates) candidates, by descending amplitude and then ascending
\* frequency, never more entries than there are candidates, and none for
\* max_peaks = 0.
C6_PeaksReturned ==
    (pc = "cleanup" /\ sweepRet = <<0>> /\ cfgState = "valid" /\ ValidPlan) =>
        /\ \A k \in 1..Len(found) :
              found[k].ret = Len(TopPeaks(buf, Candidates(buf), peaks))
        /\ printed = TopPeaks(buf, Candidates(buf), peaks)

\* C7: for every valid plan the buffer length is floor((fstop - fstart) /
\* rbw) and the frequency attached to bin i, through the hz-per-bin handed
\* to the peak finder, is fstart + i*rbw.
C7_BinFrequencies ==
    (pc = "print" /\ cfgState = "valid" /\ ValidPlan) =>
        /\ pfargs.buflen = (fstop - fstart) \div rbw
        /\ \A k \in {0, 1, pfargs.buflen - 1} :
              k * pfargs.hzperbin = k * rbw * UnitHz

\* C8: the input mode set on the device during a capture is the mode the
\* caller asked for.
C8_RequestedModeSet ==
    \A k \in 1..Len(SweepOps) :
        SweepOps[k][1] = "wsa_set_rfe_input_mode" => SweepOps[k][2] = modeStr

\* C9, as stated: set input mode, set samples-per-packet and
\* packets-per-block, flush, trigger exactly one capture, then read; the
\* flush after the configuration and before the trigger, no read before the
\* trigger, no second trigger after a failed read.
C9_FlushAfterSetup ==
    SweepEntered =>
        LET ops == SweepOps
        IN  /\ Count(ops, "wsa_capture_block") = 1
            /\ Pos(ops, "wsa_set_rfe_input_mode")
                  < Pos(ops, "wsa_set_samples_per_packet")
            /\ Pos(ops, "wsa_set_samples_per_packet")
                  < Pos(ops, "wsa_flush_data")
            /\ Pos(ops, "wsa_set_packets_per_block")
                  < Pos(ops, "wsa_flush_data")
            /\ Pos(ops, "wsa_flush_data") < Pos(ops, "wsa_capture_block")
            /\ \A k \in 1..Len(ops) :
                  ops[k][1] = "wsa_read_vrt_packet"
                     => k > Pos(ops, "wsa_capture_block")

\* C9, amended: flush, set input mode, set samples-per-packet and
\* packets-per-block, trigger exactly one capture, then read; the flush
\* before the configuration, no read before the trigger, nothing but reads
\* after it, no second trigger after a failed read.
C9_FlushBeforeSetup ==
    SweepEntered =>
        LET ops == SweepOps
        IN  /\ Count(ops, "wsa_flush_data") = 1
            /\ Count(ops, "wsa_set_rfe_input_mode") = 1
            /\ Count(ops, "wsa_set_samples_per_packet") = 1
            /\ Count(ops, "wsa_set_packets_per_block") = 1
            /\ Count(ops, "wsa_capture_block") = 1
            /\ Pos(ops, "wsa_flush_data")
                  < Pos(ops, "wsa_set_rfe_input_mode")
            /\ Pos(ops, "wsa_set_rfe_input_mode")
                  < Pos(ops, "wsa_set_samples_per_packet")
            /\ Pos(ops, "wsa_set_samples_per_packet")
                  < Pos(ops, "wsa_set_packets_per_block")
            /\ Pos(ops, "wsa_set_packets_per_block")
                  < Pos(ops, "wsa_capture_block")
            /\ \A k \in 1..Len(ops) :
                  k > Pos(ops, "wsa_capture_block")
                     <=> ops[k][1] = "wsa_read_vrt_packet"

\* a capture whose second read failed: the sweep has returned the error
\* and the log holds the five calls up to the trigger and the two reads
C9_Witness ==
    /\ sweepRet = <<-1>>
    /\ wire # <<>>
    /\ Len(SweepOps) = 7

\* the first argument that does not begin with "--", 0 when there is none
IsOption(a) == Len(CStr(a)) >= 2 /\ SubSeq(CStr(a), 1, 2) = <<"-", "-">>
FirstNonOption ==
    IF \E k \in 1..Len(argv) : ~IsOption(argv[k])
    THEN CHOOSE k \in 1..Len(argv) :
            /\ ~IsOption(argv[k])
            /\ \A j \in 1..(k - 1) : IsOption(argv[j])
    ELSE 0

\* C10: every argument is examined once, in order: the host is the first
\* argument that does not begin with "--", and a command line that holds
\* one is not rejected as "<IP> not found".
C10_HostIsFirstNonOption ==
    /\ errmsg = "<IP> not found" => FirstNonOption = 0
    /\ pc \notin {"parse", "host"} /\ host # NULL =>
          /\ FirstNonOption # 0
          /\ host = CStr(argv[FirstNonOption])

====
